---------------------------- MODULE Spec2Model ----------------------------
(***************************************************************************)
(* Fan-out of one text payload to the Airia agents (src/lib/airia-client.ts)*)
(* and the React hook that folds the outcomes into the processing session  *)
(* (src/hooks/use-airia-agents.ts).                                         *)
(*                                                                         *)
(* JavaScript runs every handler to completion up to its next await; an    *)
(* awaited promise that is already settled resumes in a microtask, before  *)
(* any other event (macrotask) is handled.  A call therefore moves through *)
(* pc = "launch" (synchronous code still running), "await" (suspended on   *)
(* fetch or on Promise.allSettled) and "returned" (the client's promise is *)
(* resolved, the caller's continuation is queued).  While some call is     *)
(* Runnable no event handler starts and no network response is delivered.  *)
(*                                                                         *)
(* React applies the queued setState updates in the order they were       *)
(* queued; the model applies each at the step that queues it.              *)
(*                                                                         *)
(* Strings that the code inspects are sequences: a text payload is a       *)
(* sequence of characters, an error message is the sequence of the parts   *)
(* its template literal concatenates.  Optional fields of a JavaScript     *)
(* object are fields a record has or lacks.                                *)
(***************************************************************************)
EXTENDS Integers, Sequences, FiniteSets, TLC

\* ------------------------------------------------------------- bounds
\* The registry of the source has eight entries; the model keeps the first
\* NumAgents of them.
NumAgents == 2
\* Longest request list handed to processWithSpecificAgents directly.
MaxReq == 2
\* Number of hook operations started in one behaviour of Spec.
MaxOps == 3

\* ------------------------------------------------------------ registry
FullRegistry ==
  << [name |-> "Route_Validator",               guid |-> "71c23734"],
     [name |-> "Value_validator",               guid |-> "07a2107e"],
     [name |-> "Regulatory_compliance_checker", guid |-> "cff07b49"],
     [name |-> "Supplier_History_Analyzer",     guid |-> "5fdf36fa"],
     [name |-> "Risk Scorer_&_Prioritizer",     guid |-> "bb5aa7e3"],
     [name |-> "Document_consistency_checker",  guid |-> "f0265e05"],
     [name |-> "hs_code_validator",             guid |-> "09d34238"],
     [name |-> "Origin_validator",              guid |-> "f182b7d5"] >>

AIRIA_AGENTS == SubSeq(FullRegistry, 1, NumAgents)

RegistryGuids == { AIRIA_AGENTS[i].guid : i \in 1..Len(AIRIA_AGENTS) }

\* A guid no registry entry has.
UnknownGuid == "does-not-exist"

Guids == RegistryGuids \cup {UnknownGuid}

\* AIRIA_AGENTS.find(a => a.guid === guid): the first match, or <<>> for
\* undefined (a one-element sequence holds the entry found).
FindAgent(guid) ==
  LET hits == { i \in 1..Len(AIRIA_AGENTS) : AIRIA_AGENTS[i].guid = guid }
  IN  IF hits = {} THEN <<>>
      ELSE << AIRIA_AGENTS[CHOOSE i \in hits : \A j \in hits : i <= j] >>

getAgentByGuid(guid) == FindAgent(guid)

\* Mutant: agent?.name without the fallback.
NameOrUnknown_NoFallback(found) ==
  IF found = <<>> THEN "" ELSE found[1].name

\* agent?.name || 'Unknown'
NameOrUnknown(found) ==
  IF found = <<>> \/ found[1].name = "" THEN "Unknown" ELSE found[1].name

\* ---------------------------------------------------------------- text
Whitespace == {" ", "\n"}

RECURSIVE TrimStart(_)
TrimStart(s) ==
  IF s = <<>> THEN <<>>
  ELSE IF Head(s) \in Whitespace THEN TrimStart(Tail(s)) ELSE s

RECURSIVE TrimEnd(_)
TrimEnd(s) ==
  IF s = <<>> THEN <<>>
  ELSE IF s[Len(s)] \in Whitespace THEN TrimEnd(SubSeq(s, 1, Len(s) - 1)) ELSE s

\* String.prototype.trim
Trim(s) == TrimEnd(TrimStart(s))

\* Mutant: !input, without trim().
IsBlank_NoTrim(s) == s = <<>>

\* !input.trim()
IsBlank(s) == Trim(s) = <<>>

\* Text payloads a caller passes.
Texts == { <<>>, <<" ", "\n">>, <<" ", "d">> }

\* ----------------------------------------------------------- transport
\* What one fetch does: it throws, or it answers with a status and a body.
Responses ==
  { [kind |-> "throws", status |-> "0",   body |-> "Failed to fetch"],
    [kind |-> "http",   status |-> "500", body |-> "Internal Server Error"],
    [kind |-> "http",   status |-> "200", body |-> "<html>"],
    [kind |-> "http",   status |-> "200", body |-> "{json}"] }

\* response.ok
ResponseOk(resp) == resp.status \in {"200", "201", "204"}

\* Bodies JSON.parse accepts.
JsonBodies == {"{json}"}

\* The credential the client was constructed with ('' when the variable is
\* not set).
ApiKeys == {"", "key"}

\* ---------------------------------------------------------- sendToAgent
\* Mutant: the failed outcome carries an empty data field as well.
FailedOutcome_WithData(agentName, message) ==
  [success |-> FALSE, error |-> message, data |-> [parsed |-> ""],
   agent_name |-> agentName, execution_time |-> "ms"]

\* An outcome of the catch block (lines 169-181).
FailedOutcome(agentName, message) ==
  [success |-> FALSE, error |-> message, agent_name |-> agentName,
   execution_time |-> "ms"]

\* The success return (lines 163-168).
SuccessOutcome(agentName, body) ==
  [success |-> TRUE, data |-> [parsed |-> body], agent_name |-> agentName,
   execution_time |-> "ms"]

\* Mutant: the credential check is missing.
PreFetchThrow_NoKeyCheck(key, guid) ==
  IF FindAgent(guid) = <<>> THEN <<"Agent with GUID ", guid, " not found">>
  ELSE <<>>

\* What the try block throws before it reaches fetch (lines 121-127);
\* <<>> when it throws nothing.
PreFetchThrow(key, guid) ==
  IF FindAgent(guid) = <<>> THEN <<"Agent with GUID ", guid, " not found">>
  ELSE IF key = "" THEN <<"API key not configured. Please set NEXT_PUBLIC_AIRIA_API_KEY in .env.local">>
  ELSE <<>>

\* Mutant: the body is parsed before the status is looked at.
PostFetchThrow_ParseFirst(resp) ==
  IF resp.kind = "throws" THEN << resp.body >>
  ELSE IF resp.body \notin JsonBodies THEN <<"Unexpected token in JSON">>
  ELSE IF ~ResponseOk(resp) THEN <<"Airia API error (", resp.status, "): ", resp.body>>
  ELSE <<>>

\* What the try block throws once fetch has answered (lines 143-160);
\* <<>> when it throws nothing.
PostFetchThrow(resp) ==
  IF resp.kind = "throws" THEN << resp.body >>
  ELSE IF ~ResponseOk(resp) THEN <<"Airia API error (", resp.status, "): ", resp.body>>
  ELSE IF resp.body \notin JsonBodies THEN <<"Unexpected token in JSON">>
  ELSE <<>>

\* A settled promise.
Fulfilled(v) == [st |-> "fulfilled", val |-> v]
Rejected(m)  == [st |-> "rejected", reason |-> m]

\* Mutant: the precondition checks stand outside the try block.
SendSync_NoCatch(key, guid) ==
  LET thrown == PreFetchThrow(key, guid)
  IN  IF thrown # <<>> THEN Rejected(thrown) @@ [net |-> FALSE]
      ELSE [st |-> "pending", net |-> TRUE]

\* sendToAgent up to the await of fetch: the promise it has settled by then,
\* or a pending one with the request on the wire.
SendSync(key, guid) ==
  LET agentName == NameOrUnknown(FindAgent(guid))
      thrown    == PreFetchThrow(key, guid)
  IN  IF thrown # <<>>
        THEN Fulfilled(FailedOutcome(agentName, thrown)) @@ [net |-> FALSE]
        ELSE [st |-> "pending", net |-> TRUE]

\* Mutant: what fetch or the checks after it throw escapes sendToAgent.
SendAsync_NoCatch(guid, resp) ==
  LET agentName == NameOrUnknown(FindAgent(guid))
      thrown    == PostFetchThrow(resp)
  IN  IF thrown # <<>>
        THEN Rejected(thrown) @@ [net |-> TRUE]
        ELSE Fulfilled(SuccessOutcome(agentName, resp.body)) @@ [net |-> TRUE]

\* sendToAgent from the answer of fetch to its return.
SendAsync(guid, resp) ==
  LET agentName == NameOrUnknown(FindAgent(guid))
      thrown    == PostFetchThrow(resp)
  IN  IF thrown # <<>>
        THEN Fulfilled(FailedOutcome(agentName, thrown)) @@ [net |-> TRUE]
        ELSE Fulfilled(SuccessOutcome(agentName, resp.body)) @@ [net |-> TRUE]


\* ---------------------------------------------------------------- state
VARIABLES
  apiKey,    \* AiriaClient.apiKey, set once by the constructor
  calls,     \* the asynchronous calls in progress, by call number
  nops,      \* hook operations started so far
  state,     \* the hook's AgentProcessingState
  pdfText,   \* the hook's staged payload
  page       \* the validation page: its route and its completion timer

vars == << apiKey, calls, nops, state, pdfText, page >>

\* Call slots: at most two calls are in flight together.
CallIds == {1, 2}

\* The slot a new call takes.
FreeSlot == CHOOSE c \in CallIds : calls[c].pc = "free" /\ \A d \in CallIds : calls[d].pc = "free" => c <= d

SomeSlotFree == \E c \in CallIds : calls[c].pc = "free"

NoCallInFlight == \A c \in CallIds : calls[c].pc = "free"

FreeCall ==
  [pc |-> "free", via |-> "none", kind |-> "none", guids |-> <<>>,
   input |-> <<>>, slots |-> <<>>, ret |-> <<>>, op |-> 0]

IdleSlot == [st |-> "idle", net |-> FALSE]

\* A call that has entered its function body and not yet run any of it.
\* The field op is history, not program state: the number of the hook
\* operation that made the call, by which calls are ordered in time.
NewCall(via, kind, guids, input) ==
  [pc |-> "launch", via |-> via, kind |-> kind, guids |-> guids,
   input |-> input, slots |-> [i \in 1..Len(guids) |-> IdleSlot],
   ret |-> <<>>, op |-> nops + 1]

\* The validation page as mounted: the route is /validate/<id>, no
\* completion timer is set, and the navigation effect has last run on the
\* results in seen.
PageMounted == [route |-> "validate", timer |-> FALSE, seen |-> <<>>]

\* useState's initial value (lines 14-21), also what resetState writes.
InitialState ==
  [isProcessing |-> FALSE, currentAgent |-> "null", progress |-> 0,
   results |-> <<>>, errors |-> <<>>, completedAgents |-> <<>>]

AllSettled(c) ==
  \A i \in 1..Len(calls[c].slots) : calls[c].slots[i].st \in {"fulfilled", "rejected"}

\* The call has code to run now: synchronous code, or a continuation whose
\* promise is already settled.
Runnable(c) ==
  \/ calls[c].pc \in {"launch", "returned"}
  \/ calls[c].pc = "await" /\ AllSettled(c)

\* The event loop is free to take the next event.
EventLoopIdle == \A c \in CallIds : ~Runnable(c)

\* ---------------------------------------------------------- coordinator
\* AIRIA_AGENTS.map(agent => agent.guid)
AllGuids == [i \in 1..Len(AIRIA_AGENTS) |-> AIRIA_AGENTS[i].guid]

\* Mutant: a coordinator that sends the first request only and would send
\* the next after awaiting it.
LaunchSlots_OneAtATime(key, guids) ==
  [i \in 1..Len(guids) |-> IF i = 1 THEN SendSync(key, guids[i]) ELSE IdleSlot]

\* The promises agentGuids.map(guid => this.sendToAgent(guid, textInput))
\* creates, each run up to its first await.
LaunchSlots(key, guids) == [i \in 1..Len(guids) |-> SendSync(key, guids[i])]

\* The body of processWithAllAgents / processWithSpecificAgents (or the
\* hook's direct sendToAgent call) up to its await.
ClientLaunch(c) ==
  /\ calls[c].pc = "launch"
  /\ calls' = [calls EXCEPT ![c].pc = "await",
                            ![c].slots = LaunchSlots(apiKey, calls[c].guids)]
  /\ UNCHANGED << page, apiKey, nops, state, pdfText >>

\* Mutant: every outcome is published to the session as it arrives.
Settle_Publishes(c, i, resp) ==
  /\ EventLoopIdle
  /\ calls[c].pc = "await"
  /\ i \in 1..Len(calls[c].slots)
  /\ calls[c].slots[i].st = "pending"
  /\ calls' = [calls EXCEPT ![c].slots[i] = SendAsync(calls[c].guids[i], resp) @@ [resp |-> resp]]
  /\ state' = [state EXCEPT !.results = Append(@, SendAsync(calls[c].guids[i], resp).val)]
  /\ UNCHANGED << page, apiKey, nops, pdfText >>

\* fetch answers (or throws) for one pending invocation, and sendToAgent
\* runs to its return.
Settle(c, i, resp) ==
  /\ EventLoopIdle
  /\ calls[c].pc = "await"
  /\ i \in 1..Len(calls[c].slots)
  /\ calls[c].slots[i].st = "pending"
  /\ calls' = [calls EXCEPT ![c].slots[i] = SendAsync(calls[c].guids[i], resp) @@ [resp |-> resp]]
  /\ UNCHANGED << page, apiKey, nops, state, pdfText >>

\* The name the coordinator gives a rejected promise's outcome: by index
\* in processWithAllAgents (line 201), by guid in processWithSpecificAgents
\* (line 224).
RejectedName(kind, guids, index) ==
  IF kind = "all"
    THEN (IF index <= Len(AIRIA_AGENTS) /\ AIRIA_AGENTS[index].name # ""
            THEN AIRIA_AGENTS[index].name ELSE "Unknown")
    ELSE NameOrUnknown(FindAgent(guids[index]))

\* result.reason?.message || 'Promise rejected'
ReasonMessage(slot) ==
  IF "reason" \in DOMAIN slot /\ slot.reason # <<>> THEN slot.reason ELSE <<"Promise rejected">>

\* Mutant: the outcomes collected last first.
MapSettled_Reversed(kind, guids, slots) ==
  [index \in 1..Len(slots) |->
     LET k == Len(slots) + 1 - index
     IN  IF slots[k].st = "fulfilled"
           THEN slots[k].val
           ELSE [success |-> FALSE, error |-> ReasonMessage(slots[k]),
                 agent_name |-> RejectedName(kind, guids, k)]]

\* results.map((result, index) => ...) over what Promise.allSettled gave.
MapSettled(kind, guids, slots) ==
  [index \in 1..Len(slots) |->
     IF slots[index].st = "fulfilled"
       THEN slots[index].val
       ELSE [success |-> FALSE, error |-> ReasonMessage(slots[index]),
             agent_name |-> RejectedName(kind, guids, index)]]

\* Mutant: Promise.race in place of Promise.allSettled.
AllSettledReady_Any(slots) ==
  slots = <<>> \/ \E i \in 1..Len(slots) : slots[i].st \in {"fulfilled", "rejected"}

\* Promise.allSettled resolves once every promise has settled.
AllSettledReady(slots) ==
  \A i \in 1..Len(slots) : slots[i].st \in {"fulfilled", "rejected"}

\* await Promise.allSettled(promises) resumes and the coordinator returns.
ClientReturn(c) ==
  /\ calls[c].pc = "await"
  /\ calls[c].kind \in {"all", "specific"}
  /\ AllSettledReady(calls[c].slots)
  /\ calls' = [calls EXCEPT ![c].pc = "returned",
                            ![c].ret = MapSettled(calls[c].kind, calls[c].guids, calls[c].slots)]
  /\ UNCHANGED << page, apiKey, nops, state, pdfText >>

\* Request lists a caller passes to processWithSpecificAgents.
RECURSIVE SeqsUpTo(_, _)
SeqsUpTo(S, n) ==
  IF n = 0 THEN { <<>> }
  ELSE LET shorter == SeqsUpTo(S, n - 1)
       IN  shorter \cup { Append(s, x) : s \in { t \in shorter : Len(t) = n - 1 }, x \in S }

Requests == SeqsUpTo(Guids, MaxReq)

\* airiaClient.processWithAllAgents(text) called directly.
ClientCallAll(text) ==
  /\ EventLoopIdle
  /\ NoCallInFlight
  /\ calls' = [calls EXCEPT ![FreeSlot] = NewCall("client", "all", AllGuids, text)]
  /\ UNCHANGED << page, apiKey, nops, state, pdfText >>

\* airiaClient.processWithSpecificAgents(text, guids) called directly.
ClientCallSpecific(text, guids) ==
  /\ EventLoopIdle
  /\ NoCallInFlight
  /\ calls' = [calls EXCEPT ![FreeSlot] = NewCall("client", "specific", guids, text)]
  /\ UNCHANGED << page, apiKey, nops, state, pdfText >>

\* The direct caller takes the returned list.
ClientCallDone(c) ==
  /\ calls[c].pc = "returned"
  /\ calls[c].via = "client"
  /\ calls' = [calls EXCEPT ![c] = FreeCall]
  /\ UNCHANGED << page, apiKey, nops, state, pdfText >>



\* ----------------------------------------------------------------- hook
\* The optional textInput argument: not given, or a text.
TextArgs ==
  { [given |-> FALSE, text |-> <<>>] } \cup { [given |-> TRUE, text |-> t] : t \in Texts }

\* textInput || pdfText
InputOrPdf(arg, pdf) == IF arg.given /\ arg.text # <<>> THEN arg.text ELSE pdf

\* What airiaClient.convertPDFToText resolves with: a failure, or a text
\* (empty, whitespace-only, or the document's text).
PdfResults ==
  { [success |-> FALSE, text |-> <<>>],
    [success |-> TRUE,  text |-> <<>>],
    [success |-> TRUE,  text |-> <<" ">>],
    [success |-> TRUE,  text |-> <<" ", "d">>] }

\* Mutant: errors: [message]
WithError_Replaces(prev, message) == [prev EXCEPT !.errors = << message >>]

\* errors: [...prev.errors, message]
WithError(prev, message) == [prev EXCEPT !.errors = Append(prev.errors, message)]

NoTextError == <<"No text input provided">>

\* Mutant: an updater that spreads prev, as processSingleAgent's does.
BatchStartState_Spread ==
  [state EXCEPT !.isProcessing = TRUE, !.currentAgent = "null", !.progress = 0]

\* The object the batch entry points write before they call the client
\* (lines 64-71, 116-123).
BatchStartState ==
  [isProcessing |-> TRUE, currentAgent |-> "null", progress |-> 0,
   results |-> <<>>, errors |-> <<>>, completedAgents |-> <<>>]

\* Mutant: the names in the order the outcomes were pushed onto a stack.
AgentNames_Reversed(results) ==
  [i \in 1..Len(results) |-> results[Len(results) + 1 - i].agent_name]

\* results.map(r => r.agent_name)
AgentNames(results) == [i \in 1..Len(results) |-> results[i].agent_name]

\* The elements of a sequence that satisfy a test, in order.
RECURSIVE SelectSucceeded(_)
SelectSucceeded(results) ==
  IF results = <<>> THEN <<>>
  ELSE IF Head(results).success
         THEN <<Head(results)>> \o SelectSucceeded(Tail(results))
         ELSE SelectSucceeded(Tail(results))

\* Mutant: only the workers that succeeded count as completed.
BatchDoneState_OnlySucceeded(prev, results) ==
  [prev EXCEPT !.isProcessing = FALSE, !.currentAgent = "null", !.progress = 100,
               !.results = results,
               !.completedAgents = AgentNames(SelectSucceeded(results))]

\* Mutant: the completion updater forgets isProcessing.
BatchDoneState_StillProcessing(prev, results) ==
  [prev EXCEPT !.currentAgent = "null", !.progress = 100,
               !.results = results, !.completedAgents = AgentNames(results)]

\* The updater the batch entry points apply to the client's list
\* (lines 76-83, 128-135).
BatchDoneState(prev, results) ==
  [prev EXCEPT !.isProcessing = FALSE, !.currentAgent = "null", !.progress = 100,
               !.results = results, !.completedAgents = AgentNames(results)]

\* The updater processSingleAgent applies before it calls the client
\* (lines 178-183).
SingleStartState(prev, agentName) ==
  [prev EXCEPT !.isProcessing = TRUE, !.currentAgent = agentName, !.progress = 0]

\* Mutant: the completion updater forgets currentAgent.
SingleDoneState_KeepsAgent(prev, result) ==
  [prev EXCEPT !.isProcessing = FALSE, !.progress = 100,
               !.results = Append(prev.results, result),
               !.completedAgents = Append(prev.completedAgents, result.agent_name)]

\* Mutant: the outcome replaces the list instead of extending it.
SingleDoneState_Replace(prev, result) ==
  [prev EXCEPT !.isProcessing = FALSE, !.currentAgent = "null", !.progress = 100,
               !.results = <<result>>,
               !.completedAgents = <<result.agent_name>>]

\* The updater processSingleAgent applies to the client's outcome
\* (lines 188-195).
SingleDoneState(prev, result) ==
  [prev EXCEPT !.isProcessing = FALSE, !.currentAgent = "null", !.progress = 100,
               !.results = Append(prev.results, result),
               !.completedAgents = Append(prev.completedAgents, result.agent_name)]

\* Mutant: the catch blocks write the whole initial object with the message.
CaughtState_WholeObject(prev, message) ==
  [isProcessing |-> FALSE, currentAgent |-> "null", progress |-> 0,
   results |-> <<>>, errors |-> Append(prev.errors, message), completedAgents |-> <<>>]

\* The updater of the catch blocks (lines 88-93, 140-145, 200-205).
CaughtState(prev, message) ==
  [prev EXCEPT !.isProcessing = FALSE, !.currentAgent = "null",
               !.errors = Append(prev.errors, message)]

\* convertPDFToText resolves (lines 28-34): a text that is not '' is staged.
ConvertPDFToText(result) ==
  /\ EventLoopIdle
  /\ pdfText' = IF result.success /\ result.text # <<>> THEN result.text ELSE pdfText
  /\ UNCHANGED << page, apiKey, calls, nops, state >>

\* Mutant: the blank check is missing.
HookBatchStart_NoCheck(kind, guids, arg) ==
  /\ EventLoopIdle
  /\ nops < MaxOps
  /\ SomeSlotFree
  /\ nops' = nops + 1
  /\ state' = BatchStartState
  /\ calls' = [calls EXCEPT ![FreeSlot] = NewCall("hook", kind, guids, InputOrPdf(arg, pdfText))]
  /\ UNCHANGED << page, apiKey, pdfText >>

\* The synchronous head of a batch entry point (lines 52-72, 101-124):
\* the blank check, then the reset of the session; the call to the client
\* comes next.
HookBatchStart(kind, guids, arg) ==
  LET input == InputOrPdf(arg, pdfText)
      c     == FreeSlot
  IN  /\ EventLoopIdle
      /\ nops < MaxOps
      /\ SomeSlotFree
      /\ nops' = nops + 1
      /\ IF IsBlank(input)
           THEN /\ state' = WithError(state, NoTextError)
                /\ calls' = calls
           ELSE /\ state' = BatchStartState
                /\ calls' = [calls EXCEPT ![c] = NewCall("hook", kind, guids, input)]
      /\ UNCHANGED << page, apiKey, pdfText >>

processWithAllAgents(arg) == HookBatchStart("all", AllGuids, arg)

processWithSpecificAgents(guids, arg) == HookBatchStart("specific", guids, arg)

\* The continuation of a batch entry point once the client has returned
\* (lines 74-85, 126-137).
HookBatchDone(c) ==
  /\ calls[c].pc = "returned"
  /\ calls[c].via = "hook"
  /\ state' = BatchDoneState(state, calls[c].ret)
  /\ calls' = [calls EXCEPT ![c] = FreeCall]
  /\ UNCHANGED << page, apiKey, nops, pdfText >>

\* return [] of a batch entry point given blank input (lines 61, 113).
BatchEarlyReturn == <<>>

\* Mutant: return results.filter(r => r.success).
BatchReturn_OnlySucceeded(c) == SelectSucceeded(calls[c].ret)

\* return results of a batch entry point (lines 85, 137).
BatchReturn(c) == calls[c].ret

\* What processSingleAgent returns once sendToAgent has settled: the
\* outcome (line 197), or null from the catch block (line 206).
SingleReturn(c) ==
  IF calls[c].slots[1].st = "fulfilled" THEN calls[c].slots[1].val ELSE "null"

\* return null of processSingleAgent given blank input or an unknown id
\* (lines 165, 175).
SingleEarlyReturn == "null"

\* Mutant: processSingleAgent without the registry check.
processSingleAgent_NoLookup(guid, arg) ==
  LET input == InputOrPdf(arg, pdfText)
      agent == getAgentByGuid(guid)
      c     == FreeSlot
  IN  /\ EventLoopIdle
      /\ nops < MaxOps
      /\ SomeSlotFree
      /\ nops' = nops + 1
      /\ IF IsBlank(input)
           THEN /\ state' = WithError(state, NoTextError)
                /\ calls' = calls
           ELSE /\ state' = SingleStartState(state, NameOrUnknown(agent))
                /\ calls' = [calls EXCEPT ![c] = NewCall("hook", "single", <<guid>>, input)]
      /\ UNCHANGED << page, apiKey, pdfText >>

\* The synchronous head of processSingleAgent (lines 153-184).
processSingleAgent(guid, arg) ==
  LET input == InputOrPdf(arg, pdfText)
      agent == getAgentByGuid(guid)
      c     == FreeSlot
  IN  /\ EventLoopIdle
      /\ nops < MaxOps
      /\ SomeSlotFree
      /\ nops' = nops + 1
      /\ IF IsBlank(input)
           THEN /\ state' = WithError(state, NoTextError)
                /\ calls' = calls
           ELSE IF agent = <<>>
             THEN /\ state' = WithError(state, <<"Agent with GUID ", guid, " not found">>)
                  /\ calls' = calls
             ELSE /\ state' = SingleStartState(state, agent[1].name)
                  /\ calls' = [calls EXCEPT ![c] = NewCall("hook", "single", <<guid>>, input)]
      /\ UNCHANGED << page, apiKey, pdfText >>

\* The continuation of processSingleAgent once sendToAgent has settled
\* (lines 186-207): the outcome is appended, or a rejection is caught.
HookSingleDone(c) ==
  /\ calls[c].pc = "await"
  /\ calls[c].kind = "single"
  /\ calls[c].slots[1].st \in {"fulfilled", "rejected"}
  /\ state' = IF calls[c].slots[1].st = "fulfilled"
                THEN SingleDoneState(state, calls[c].slots[1].val)
                ELSE CaughtState(state, calls[c].slots[1].reason)
  /\ calls' = [calls EXCEPT ![c] = FreeCall]
  /\ UNCHANGED << page, apiKey, nops, pdfText >>

\* Mutant: resetState without setPdfText('').
resetState_KeepsPayload ==
  /\ EventLoopIdle
  /\ nops < MaxOps
  /\ nops' = nops + 1
  /\ state' = InitialState
  /\ UNCHANGED << page, apiKey, calls, pdfText >>

\* resetState (lines 213-223).
resetState ==
  /\ EventLoopIdle
  /\ nops < MaxOps
  /\ nops' = nops + 1
  /\ state' = InitialState
  /\ pdfText' = <<>>
  /\ UNCHANGED << page, apiKey, calls >>

\* Mutant: clearErrors writes the whole initial object, as resetState does.
clearErrors_WholeObject ==
  /\ EventLoopIdle
  /\ nops < MaxOps
  /\ nops' = nops + 1
  /\ state' = InitialState
  /\ UNCHANGED << page, apiKey, calls, pdfText >>

\* clearErrors (lines 228-233).
clearErrors ==
  /\ EventLoopIdle
  /\ nops < MaxOps
  /\ nops' = nops + 1
  /\ state' = [state EXCEPT !.errors = <<>>]
  /\ UNCHANGED << page, apiKey, calls, pdfText >>

\* What fetch answers in the behaviours of the hook: a failure and a success.
HookResponses == { r \in Responses : r.kind = "http" /\ (r.status = "500" \/ r.body \in JsonBodies) }

\* Request lists the hook's caller passes.
HookRequests == { <<>>, << AllGuids[Len(AllGuids)], UnknownGuid >> }

Init ==
  /\ apiKey \in ApiKeys
  /\ calls = [c \in CallIds |-> FreeCall]
  /\ nops = 0
  /\ state = InitialState
  /\ pdfText = <<>>
  /\ page = PageMounted

\* The coordinator alone, called directly, one batch at a time.
NextClient ==
  \/ \E text \in Texts : ClientCallAll(text)
  \/ \E text \in Texts, guids \in Requests : ClientCallSpecific(text, guids)
  \/ \E c \in CallIds : ClientLaunch(c)
  \/ \E c \in CallIds, i \in 1..MaxReq + NumAgents, resp \in Responses : Settle(c, i, resp)
  \/ \E c \in CallIds : ClientReturn(c)
  \/ \E c \in CallIds : ClientCallDone(c)

SpecClient == Init /\ [][NextClient]_vars

\* The batch entry points of both layers, one batch at a time: the
\* coordinator called directly, and the hook's entry points built on it.
NextEntry ==
  \/ \E text \in Texts : ClientCallAll(text)
  \/ \E text \in Texts, guids \in HookRequests : ClientCallSpecific(text, guids)
  \/ \E result \in PdfResults : ConvertPDFToText(result)
  \/ \E arg \in TextArgs : NoCallInFlight /\ processWithAllAgents(arg)
  \/ \E guids \in HookRequests, arg \in TextArgs : NoCallInFlight /\ processWithSpecificAgents(guids, arg)
  \/ \E c \in CallIds : ClientLaunch(c)
  \/ \E c \in CallIds, i \in 1..MaxReq + NumAgents, resp \in HookResponses : Settle(c, i, resp)
  \/ \E c \in CallIds : ClientReturn(c)
  \/ \E c \in CallIds : ClientCallDone(c)
  \/ \E c \in CallIds : HookBatchDone(c)

SpecEntry == Init /\ [][NextEntry]_vars

\* The hook, its operations started in any order and overlapping.
Next ==
  \/ \E result \in PdfResults : ConvertPDFToText(result)
  \/ \E arg \in TextArgs : processWithAllAgents(arg)
  \/ \E guids \in HookRequests, arg \in TextArgs : processWithSpecificAgents(guids, arg)
  \/ \E guid \in Guids, arg \in TextArgs : processSingleAgent(guid, arg)
  \/ resetState
  \/ clearErrors
  \/ \E c \in CallIds : ClientLaunch(c)
  \/ \E c \in CallIds, i \in 1..MaxReq + NumAgents, resp \in HookResponses : Settle(c, i, resp)
  \/ \E c \in CallIds : ClientReturn(c)
  \/ \E c \in CallIds : HookBatchDone(c)
  \/ \E c \in CallIds : HookSingleDone(c)

Spec == Init /\ [][Next]_vars

\* The hook used in fan-out mode only: batches started in any order and
\* overlapping, with the payload staged, the session reset and the errors
\* cleared at any time.
NextBatch ==
  \/ \E result \in PdfResults : ConvertPDFToText(result)
  \/ \E arg \in TextArgs : processWithAllAgents(arg)
  \/ \E guids \in HookRequests, arg \in TextArgs : processWithSpecificAgents(guids, arg)
  \/ resetState
  \/ clearErrors
  \/ \E c \in CallIds : ClientLaunch(c)
  \/ \E c \in CallIds, i \in 1..MaxReq + NumAgents, resp \in HookResponses : Settle(c, i, resp)
  \/ \E c \in CallIds : ClientReturn(c)
  \/ \E c \in CallIds : HookBatchDone(c)

SpecBatch == Init /\ [][NextBatch]_vars

\* The steps that need no caller: synchronous code and ready continuations,
\* which the event loop runs, and the answers of fetch.
Progress ==
  \/ \E c \in CallIds : ClientLaunch(c)
  \/ \E c \in CallIds, i \in 1..MaxReq + NumAgents, resp \in HookResponses : Settle(c, i, resp)
  \/ \E c \in CallIds : ClientReturn(c)
  \/ \E c \in CallIds : HookBatchDone(c)
  \/ \E c \in CallIds : HookSingleDone(c)

\* The hook when every request is answered and the event loop keeps running.
\* Texts the caller passes in the behaviours of SpecLive: a blank one and
\* one with content.
LiveArgs == { arg \in TextArgs : arg.given /\ arg.text # <<>> }

\* The operations that set or clear isProcessing, started in any order and
\* overlapping.
NextLive ==
  \/ \E arg \in LiveArgs : processWithAllAgents(arg)
  \/ \E guids \in HookRequests, arg \in LiveArgs : processWithSpecificAgents(guids, arg)
  \/ \E guid \in Guids, arg \in LiveArgs : processSingleAgent(guid, arg)
  \/ resetState
  \/ Progress

SpecLive == Init /\ [][NextLive]_vars /\ WF_vars(Progress)

\* ------------------------------------------------------- validation page
\* The text the page sends on mount (lines 145-152 of the page).
SampleText == << "I", "\n", "S" >>

\* The start effect (lines 143-156 of the page): on mount the page calls
\* processWithAllAgents(sampleText).
PageStartEffect ==
  /\ page.route = "validate"
  /\ nops = 0
  /\ processWithAllAgents([given |-> TRUE, text |-> SampleText])

\* results.length === AIRIA_AGENTS.length && results.every(r => r.success)
ShouldNavigate(results) ==
  /\ Len(results) = Len(AIRIA_AGENTS)
  /\ \A i \in 1..Len(results) : results[i].success

\* The navigation effect (lines 186-194 of the page), run after results
\* changed: the cleanup clears the timer of the run before, and a new
\* timer is set when the condition holds.
PageNavigationEffect ==
  /\ page.route = "validate"
  /\ EventLoopIdle
  /\ page.seen # state.results
  /\ page' = [page EXCEPT !.seen = state.results, !.timer = ShouldNavigate(state.results)]
  /\ UNCHANGED << apiKey, calls, nops, state, pdfText >>

\* The completion timer fires: router.push(`/analysis/${shipmentId}`).
PageTimerFires ==
  /\ page.route = "validate"
  /\ EventLoopIdle
  /\ page.timer
  /\ page.seen = state.results
  /\ page' = [page EXCEPT !.route = "analysis", !.timer = FALSE]
  /\ UNCHANGED << apiKey, calls, nops, state, pdfText >>

\* The user leaves the page: the component unmounts and the cleanup of the
\* navigation effect clears the timer (line 192 of the page).
PageUnmount ==
  /\ page.route = "validate"
  /\ EventLoopIdle
  /\ page' = [page EXCEPT !.route = "left", !.timer = FALSE]
  /\ UNCHANGED << apiKey, calls, nops, state, pdfText >>

\* The steps of the mounted page that need no user: its effects, the one
\* batch it starts, the answers of fetch and the timer.
PageAuto ==
  \/ PageStartEffect
  \/ \E c \in CallIds : page.route = "validate" /\ ClientLaunch(c)
  \/ \E c \in CallIds, i \in 1..MaxReq + NumAgents, resp \in Responses :
        page.route = "validate" /\ Settle(c, i, resp)
  \/ \E c \in CallIds : page.route = "validate" /\ ClientReturn(c)
  \/ \E c \in CallIds : page.route = "validate" /\ HookBatchDone(c)
  \/ PageNavigationEffect
  \/ PageTimerFires

\* The validation page from mount until it is left; the session of an
\* unmounted component is no longer observed.
NextPage == PageAuto \/ PageUnmount

\* Effects, continuations and timers run, and every request is answered.
SpecPage == Init /\ [][NextPage]_vars /\ WF_vars(PageAuto)

\* ------------------------------------------------------- error answers
\* responseText.substring(0, 200), the excerpt of the body that is logged
\* (line 153).
ExcerptLimit == 200

\* A response body of n characters, as the sequence of its characters.
BodyOfLength(n) == [i \in 1..n |-> "x"]

\* Body lengths around the excerpt limit.
BodyLengths == {0, ExcerptLimit, ExcerptLimit + 1}

\* Answers of fetch with a status that is not 2xx.
ErrorResponses ==
  { [kind |-> "http", status |-> s, body |-> BodyOfLength(n)] :
      s \in {"404", "500"}, n \in BodyLengths }

\* The coordinator called directly when every request is answered with an
\* error status.
NextReason ==
  \/ \E text \in Texts : ClientCallAll(text)
  \/ \E c \in CallIds : ClientLaunch(c)
  \/ \E c \in CallIds, i \in 1..MaxReq + NumAgents, resp \in ErrorResponses : Settle(c, i, resp)
  \/ \E c \in CallIds : ClientReturn(c)
  \/ \E c \in CallIds : ClientCallDone(c)

SpecReason == Init /\ [][NextReason]_vars

\* ------------------------------------------------------ the catch blocks
\* error instanceof Error ? error.message : 'Unknown error' (lines 87, 139,
\* 199): the message of an Error, or the text for any other value raised.
RaisedMessages == { <<"coordinator failed">>, <<"Unknown error">> }

\* return [] of the batch entry points' catch block (lines 94, 146),
\* return null of processSingleAgent's (line 206).
CaughtReturn(kind) == IF kind = "single" THEN "null" ELSE <<>>

\* The awaited client call of a hook entry point raises and the catch
\* block runs (lines 86-95, 138-147, 198-207).  AiriaClient as it stands
\* never raises (sendToAgent catches everything, Promise.allSettled never
\* rejects); this step is the hook's answer to a client that does.
HookCaught(c, message) ==
  /\ calls[c].via = "hook"
  /\ calls[c].pc = "await"
  /\ state' = CaughtState(state, message)
  /\ calls' = [calls EXCEPT ![c] = FreeCall]
  /\ UNCHANGED << page, apiKey, nops, pdfText >>

\* The hook over a client whose calls may raise instead of returning.
NextRaise ==
  \/ \E arg \in LiveArgs : processWithAllAgents(arg)
  \/ \E guids \in HookRequests, arg \in LiveArgs : processWithSpecificAgents(guids, arg)
  \/ \E guid \in Guids, arg \in LiveArgs : processSingleAgent(guid, arg)
  \/ Progress
  \/ \E c \in CallIds, message \in RaisedMessages : HookCaught(c, message)

SpecRaise == Init /\ [][NextRaise]_vars


\* --------------------------------------------------------------- claims
ReturnedBatches == { c \in CallIds : calls[c].pc = "returned" }

Known(guid) == FindAgent(guid) # <<>>

\* The name the registry gives a guid, 'Unknown' for a guid it lacks.
ResolvedName(guid) ==
  IF \E i \in 1..Len(AIRIA_AGENTS) : AIRIA_AGENTS[i].guid = guid
    THEN AIRIA_AGENTS[CHOOSE i \in 1..Len(AIRIA_AGENTS) : AIRIA_AGENTS[i].guid = guid].name
    ELSE "Unknown"

\* C1: a returned batch holds one outcome per requested id, in request
\* order: the i-th outcome is the one the invocation for the i-th id
\* produced and carries the name resolved from that id, whatever the order
\* in which the invocations settled; processWithAllAgents returns one
\* outcome per registry entry in registry order.
C1_OneOutcomePerRequestInOrder ==
  \A c \in ReturnedBatches :
    /\ Len(calls[c].ret) = Len(calls[c].guids)
    /\ \A i \in 1..Len(calls[c].guids) :
         /\ calls[c].ret[i].agent_name = ResolvedName(calls[c].guids[i])
         /\ calls[c].slots[i].st = "fulfilled" => calls[c].ret[i] = calls[c].slots[i].val
    /\ calls[c].kind = "all" =>
         /\ Len(calls[c].ret) = Len(AIRIA_AGENTS)
         /\ \A i \in 1..Len(AIRIA_AGENTS) : calls[c].ret[i].agent_name = AIRIA_AGENTS[i].name

\* A subset batch asked in an order other than the registry's has returned,
\* both requests went to the network and one failed.
C1_Witness ==
  \E c \in ReturnedBatches :
    /\ calls[c].kind = "specific"
    /\ calls[c].guids = << AIRIA_AGENTS[2].guid, AIRIA_AGENTS[1].guid >>
    /\ calls[c].slots[1].net /\ calls[c].slots[2].net
    /\ calls[c].ret[1].success /\ ~calls[c].ret[2].success

\* C2: a batch has returned only when every one of its invocations has
\* settled, and every invocation of a batch that is past its launch has
\* been launched, whatever became of the others: while one invocation is
\* pending the batch has not returned.
C2_ReturnsOnlyWhenAllSettled ==
  \A c \in CallIds :
    /\ calls[c].pc = "returned" =>
         \A i \in 1..Len(calls[c].slots) : calls[c].slots[i].st \in {"fulfilled", "rejected"}
    /\ calls[c].pc \in {"await", "returned"} =>
         \A i \in 1..Len(calls[c].slots) : calls[c].slots[i].st # "idle"

\* A batch is waiting on a pending invocation after another of its
\* invocations has failed.
C2_Witness ==
  \E c \in CallIds : \E i, j \in 1..Len(calls[c].slots) :
    /\ calls[c].pc = "await"
    /\ calls[c].kind \in {"all", "specific"}
    /\ calls[c].slots[i].st = "fulfilled" /\ ~calls[c].slots[i].val.success
    /\ calls[c].slots[j].st = "pending"
    /\ i < j

\* C3: sendToAgent never rejects: for known and unknown ids, with and
\* without the credential, whatever fetch does, its promise is pending or
\* fulfilled with an outcome, so no returned outcome is the one the
\* coordinator synthesizes for a rejected promise.
C3_SendToAgentNeverRejects ==
  \A c \in CallIds :
    /\ \A i \in 1..Len(calls[c].slots) : calls[c].slots[i].st # "rejected"
    /\ calls[c].pc = "returned" =>
         \A i \in 1..Len(calls[c].ret) :
            /\ calls[c].ret[i].success \in BOOLEAN
            /\ calls[c].ret[i] = calls[c].slots[i].val

\* An invocation whose fetch threw has settled with an outcome, beside an
\* invocation of an unknown id.
C3_Witness ==
  \E c \in CallIds : \E i, j \in 1..Len(calls[c].slots) :
    /\ calls[c].slots[i].st = "fulfilled"
    /\ "resp" \in DOMAIN calls[c].slots[i]
    /\ calls[c].slots[i].resp.kind = "throws"
    /\ ~calls[c].slots[i].val.success
    /\ ~Known(calls[c].guids[j])
    /\ calls[c].slots[j].st = "fulfilled"

\* The outcome sendToAgent gives one id on its own, with the credential
\* and the answer of fetch that the invocation in the slot met.
IsolatedOutcome(key, guid, slot) ==
  IF SendSync(key, guid).st = "pending"
    THEN SendAsync(guid, slot.resp).val
    ELSE SendSync(key, guid).val

\* C4: in a returned subset batch every id the registry lacks has, at its
\* own position, a failed outcome named 'Unknown' whose error text holds
\* the id, and no request was sent for it; every other position holds the
\* outcome its id yields on its own.
C4_UnknownIdFailsAlone ==
  \A c \in ReturnedBatches :
    calls[c].kind = "specific" =>
      \A i \in 1..Len(calls[c].guids) :
        IF ~Known(calls[c].guids[i])
          THEN /\ ~calls[c].ret[i].success
               /\ calls[c].ret[i].agent_name = "Unknown"
               /\ \E k \in 1..Len(calls[c].ret[i].error) :
                     calls[c].ret[i].error[k] = calls[c].guids[i]
               /\ ~calls[c].slots[i].net
          ELSE calls[c].ret[i] = IsolatedOutcome(apiKey, calls[c].guids[i], calls[c].slots[i])

\* A subset batch of a known id followed by an unknown one has returned,
\* and the known id succeeded.
C4_Witness ==
  \E c \in ReturnedBatches :
    /\ calls[c].kind = "specific"
    /\ Len(calls[c].guids) = 2
    /\ Known(calls[c].guids[1]) /\ ~Known(calls[c].guids[2])
    /\ calls[c].ret[1].success
    /\ ~calls[c].ret[2].success

ConfigurationFailure ==
  <<"API key not configured. Please set NEXT_PUBLIC_AIRIA_API_KEY in .env.local">>

\* C5 as stated: without the credential every invocation of a batch fails
\* with the configuration-failure reason and no request is sent, unknown
\* ids included.
C5_AllFailWithConfigurationReason ==
  apiKey = "" =>
    \A c \in CallIds :
      /\ \A i \in 1..Len(calls[c].slots) : ~calls[c].slots[i].net
      /\ calls[c].pc = "returned" =>
           \A i \in 1..Len(calls[c].ret) :
              /\ ~calls[c].ret[i].success
              /\ calls[c].ret[i].error = ConfigurationFailure

\* C5 amended: without the credential no request is sent and every
\* invocation of a batch fails; the invocation of a registry id fails with
\* the configuration-failure reason, the invocation of an unknown id with
\* the not-found reason that names the id.
C5_AllFailWithoutNetwork ==
  apiKey = "" =>
    \A c \in CallIds :
      /\ \A i \in 1..Len(calls[c].slots) : ~calls[c].slots[i].net
      /\ calls[c].pc = "returned" =>
           \A i \in 1..Len(calls[c].ret) :
              /\ ~calls[c].ret[i].success
              /\ calls[c].ret[i].error =
                   IF Known(calls[c].guids[i]) THEN ConfigurationFailure
                   ELSE <<"Agent with GUID ", calls[c].guids[i], " not found">>

\* Without the credential a batch of a registry id and an unknown id has
\* returned.
C5_Witness ==
  /\ apiKey = ""
  /\ \E c \in ReturnedBatches : \E i, j \in 1..Len(calls[c].guids) :
       Known(calls[c].guids[i]) /\ ~Known(calls[c].guids[j])


\* A text that is empty or holds only whitespace.
OnlyWhitespace(s) == \A i \in 1..Len(s) : s[i] \in Whitespace

\* The texts a caller passes that are empty or whitespace-only.
BlankTextArgs == { arg \in TextArgs : arg.given /\ OnlyWhitespace(arg.text) }

\* What the claim says of one step of the hook on a blank text: no call is
\* started, exactly one message is added to errors, isProcessing is not
\* set, and the outcomes stay as they were.
RejectedAsBlank ==
  /\ calls' = calls
  /\ Len(state'.errors) = Len(state.errors) + 1
  /\ SubSeq(state'.errors, 1, Len(state.errors)) = state.errors
  /\ state'.isProcessing = state.isProcessing
  /\ state'.results = state.results
  /\ state'.completedAgents = state.completedAgents

\* C6 as stated: the hook's processWithAllAgents, given an empty or
\* whitespace-only text in any session state, starts no batch, adds exactly
\* one message to errors and leaves isProcessing as it was.
C6_BlankTextAlwaysRejected ==
  [][\A arg \in BlankTextArgs : processWithAllAgents(arg) => RejectedAsBlank]_vars

\* C6 amended: the same holds of a whitespace-only text that is not empty
\* in any session state, and of an empty text when the payload staged by
\* convertPDFToText is empty or whitespace-only; an empty text with a
\* non-blank payload staged is replaced by that payload and starts a batch.
C6_BlankInputRejected ==
  [][\A arg \in BlankTextArgs :
        (processWithAllAgents(arg) /\ (arg.text = <<>> => OnlyWhitespace(pdfText)))
          => RejectedAsBlank]_vars

\* One operation has run, with a payload staged: it was rejected as blank
\* and no call is in flight.
C6_Witness ==
  /\ ~OnlyWhitespace(pdfText)
  /\ nops = 1
  /\ state.errors = << NoTextError >>
  /\ ~state.isProcessing
  /\ NoCallInFlight

StartedSession ==
  [isProcessing |-> TRUE, currentAgent |-> "null", progress |-> 0,
   results |-> <<>>, errors |-> <<>>, completedAgents |-> <<>>]

\* C8: when a batch of the hook is about to launch its invocations, the
\* session is the started session (isProcessing, no current agent, progress
\* 0, no outcomes, no errors, no completed agents) whatever it held before,
\* and none of the batch's invocations is launched yet.
C8_SessionResetBeforeLaunch ==
  \A c \in CallIds :
    (calls[c].via = "hook" /\ calls[c].kind \in {"all", "specific"} /\ calls[c].pc = "launch") =>
       /\ state = StartedSession
       /\ \A i \in 1..Len(calls[c].slots) : calls[c].slots[i].st = "idle"

\* A batch is about to launch while a single-agent call, which had set the
\* current agent, is still waiting, after an earlier operation.
C8_Witness ==
  \E c, d \in CallIds :
    /\ calls[c].via = "hook" /\ calls[c].kind = "all" /\ calls[c].pc = "launch"
    /\ calls[d].kind = "single" /\ calls[d].pc = "await"
    /\ nops = 3

\* The names the registry resolves a request list to.
RequestedNames(guids) == [i \in 1..Len(guids) |-> ResolvedName(guids[i])]

\* C9: when a batch's continuation runs on the session its own start left
\* (no other operation wrote the session in between), the session becomes:
\* not processing, progress 100, no current agent, results the list the
\* coordinator returned, completedAgents the name of every requested worker
\* in request order, failed or not, and errors empty.
C9_BatchCompletion ==
  [][\A c \in CallIds :
        (HookBatchDone(c) /\ state = StartedSession) =>
           state' = [isProcessing |-> FALSE, currentAgent |-> "null", progress |-> 100,
                     results |-> calls[c].ret,
                     completedAgents |-> RequestedNames(calls[c].guids),
                     errors |-> <<>>]]_vars

\* The only operation started was a batch over the registry; it has
\* completed with a failed worker among the completed ones.
C9_Witness ==
  /\ nops = 1
  /\ NoCallInFlight
  /\ ~state.isProcessing /\ state.progress = 100
  /\ Len(state.results) = Len(AIRIA_AGENTS)
  /\ \E i, j \in 1..Len(state.results) :
       /\ ~state.results[i].success /\ state.completedAgents[i] = AIRIA_AGENTS[i].name
       /\ state.results[j].success

\* C10: when processSingleAgent's invocation settles with an outcome, that
\* outcome is appended to results and its agent_name, the name of the
\* requested agent, to completedAgents; isProcessing becomes false and
\* currentAgent null; errors are unchanged.
C10_SingleCompletion ==
  [][\A c \in CallIds :
        (HookSingleDone(c) /\ calls[c].slots[1].st = "fulfilled") =>
           LET outcome == calls[c].slots[1].val
           IN  /\ outcome.agent_name = ResolvedName(calls[c].guids[1])
               /\ state'.results = Append(state.results, outcome)
               /\ state'.completedAgents = Append(state.completedAgents, outcome.agent_name)
               /\ state'.isProcessing = FALSE
               /\ state'.currentAgent = "null"
               /\ state'.errors = state.errors]_vars

\* A failed single-agent outcome stands after the outcomes of a batch, and
\* an error recorded meanwhile is still there.
C10_Witness ==
  /\ NoCallInFlight
  /\ Len(state.results) = Len(AIRIA_AGENTS) + 1
  /\ ~state.results[Len(state.results)].success
  /\ state.errors # <<>>
  /\ ~state.isProcessing

\* C11: clearErrors, in every reachable state and also while a call is in
\* flight, sets errors to [] and leaves results, completedAgents,
\* isProcessing, currentAgent, progress and the staged payload as they were;
\* it touches no call.
C11_ClearErrorsFrame ==
  [][clearErrors =>
       /\ state'.errors = <<>>
       /\ state'.results = state.results
       /\ state'.completedAgents = state.completedAgents
       /\ state'.isProcessing = state.isProcessing
       /\ state'.currentAgent = state.currentAgent
       /\ state'.progress = state.progress
       /\ pdfText' = pdfText
       /\ calls' = calls]_vars

\* A single-agent call, the first operation, is still in flight and has set
\* the current agent; two more operations ran and no error is left: the
\* last of them was clearErrors (any other would have left a message, or
\* changed isProcessing, currentAgent or results).
C11_Witness ==
  /\ nops = 3
  /\ \E c \in CallIds :
       /\ calls[c].kind = "single" /\ calls[c].pc = "await" /\ calls[c].op = 1
       /\ \A d \in CallIds \ {c} : calls[d].pc = "free"
       /\ state.currentAgent = ResolvedName(calls[c].guids[1])
  /\ state.isProcessing
  /\ state.errors = <<>>
  /\ state.results = <<>>

\* C12: resetState, in any reachable state, leaves the initial session
\* (not processing, no current agent, progress 0, no results, no errors, no
\* completed agents) and an empty staged payload, and touches no call; a
\* resetState that follows a resetState changes neither the session nor the
\* payload.
C12_ResetIsInitialAndIdempotent ==
  [][resetState =>
       /\ state' = [isProcessing |-> FALSE, currentAgent |-> "null", progress |-> 0,
                    results |-> <<>>, errors |-> <<>>, completedAgents |-> <<>>]
       /\ pdfText' = <<>>
       /\ calls' = calls
       /\ (state = [isProcessing |-> FALSE, currentAgent |-> "null", progress |-> 0,
                    results |-> <<>>, errors |-> <<>>, completedAgents |-> <<>>]
           /\ pdfText = <<>>)
            => (state' = state /\ pdfText' = pdfText)]_vars

\* A single-agent call, the first operation, is still in flight, and after
\* two more operations the session is the initial one with no payload
\* staged: resetState ran after the call had set isProcessing.
C12_Witness ==
  /\ nops = 3
  /\ \E c \in CallIds :
       /\ calls[c].kind = "single" /\ calls[c].pc = "await" /\ calls[c].op = 1
       /\ \A d \in CallIds \ {c} : calls[d].pc = "free"
  /\ state = InitialState
  /\ pdfText = <<>>

\* The calls the hook's batch entry points have made and not yet completed.
HookBatchesInFlight ==
  { c \in CallIds : calls[c].via = "hook" /\ calls[c].kind \in {"all", "specific"}
                    /\ calls[c].pc \in {"launch", "await"} }

\* An invocation of the call has not settled yet.
HasUnsettled(c) ==
  \E i \in 1..Len(calls[c].slots) : calls[c].slots[i].st \in {"idle", "pending"}

\* C13 as stated: isProcessing is true in every state between the start of
\* a batch and the settlement of all its invocations, whatever other
\* operation (a single-agent call or another batch settling, resetState)
\* completes in between.
C13_ProcessingWhileBatchPending ==
  \A c \in HookBatchesInFlight : HasUnsettled(c) => state.isProcessing

\* C14 as stated: once a newer batch has started, a batch or single-agent
\* call that was started before it and completes after that start neither
\* replaces nor extends results and completedAgents.  (Calls are ordered
\* by the number of the operation that made them.)
C14_OlderCallLeavesNewerBatch ==
  [][\A c \in HookBatchesInFlight : \A d \in CallIds \ {c} :
        (calls[d].op < calls[c].op /\ (HookBatchDone(d) \/ HookSingleDone(d))) =>
           /\ state'.results = state.results
           /\ state'.completedAgents = state.completedAgents]_vars

\* C15: in every reachable state of the session, under every interleaving
\* of the hook's operations, completedAgents is as long as results and its
\* i-th element is the agent_name of the i-th result.
C15_CompletedAgentsAreResultNames ==
  /\ Len(state.completedAgents) = Len(state.results)
  /\ \A i \in 1..Len(state.results) :
       state.completedAgents[i] = state.results[i].agent_name

\* A successful single-agent outcome stands after the list of a batch over
\* the registry, whose names differ from one another.
C15_Witness ==
  /\ Len(state.results) = Len(AIRIA_AGENTS) + 1
  /\ state.results[Len(state.results)].success
  /\ state.completedAgents[1] # state.completedAgents[2]
  /\ \A i \in 1..Len(AIRIA_AGENTS) : state.results[i].agent_name = AIRIA_AGENTS[i].name

\* C16 as stated: whenever a batch entry point returns, results equals the
\* sequence it returns, and an outcome processSingleAgent returns is the
\* last element of results.
C16_ReturnEqualsSession ==
  [][/\ \A arg \in TextArgs :
          (processWithAllAgents(arg) /\ OnlyWhitespace(InputOrPdf(arg, pdfText)))
            => state'.results = BatchEarlyReturn
     /\ \A guids \in HookRequests, arg \in TextArgs :
          (processWithSpecificAgents(guids, arg) /\ OnlyWhitespace(InputOrPdf(arg, pdfText)))
            => state'.results = BatchEarlyReturn
     /\ \A c \in CallIds : HookBatchDone(c) => state'.results = BatchReturn(c)
     /\ \A c \in CallIds :
          (HookSingleDone(c) /\ calls[c].slots[1].st = "fulfilled")
            => state'.results[Len(state'.results)] = SingleReturn(c)]_vars

\* C16 amended: a batch entry point that passed the blank check returns
\* the list it writes to results, one outcome per requested id, and an
\* outcome processSingleAgent returns is the last element of results; a
\* batch entry point given blank input returns [] and leaves results as
\* they were.
C16_ReturnEqualsWhatIsWritten ==
  [][/\ \A arg \in TextArgs :
          (processWithAllAgents(arg) /\ OnlyWhitespace(InputOrPdf(arg, pdfText)))
            => (BatchEarlyReturn = <<>> /\ state'.results = state.results)
     /\ \A guids \in HookRequests, arg \in TextArgs :
          (processWithSpecificAgents(guids, arg) /\ OnlyWhitespace(InputOrPdf(arg, pdfText)))
            => (BatchEarlyReturn = <<>> /\ state'.results = state.results)
     /\ \A c \in CallIds :
          HookBatchDone(c) =>
            /\ state'.results = BatchReturn(c)
            /\ Len(BatchReturn(c)) = Len(calls[c].guids)
            /\ \A i \in 1..Len(calls[c].guids) : BatchReturn(c)[i] = calls[c].slots[i].val
     /\ \A c \in CallIds :
          (HookSingleDone(c) /\ calls[c].slots[1].st = "fulfilled")
            => state'.results[Len(state'.results)] = SingleReturn(c)]_vars

\* A batch over the registry has completed with a failed outcome in its
\* list, and a blank call after it was rejected: the results are still the
\* batch's.
C16_Witness ==
  /\ nops = 2
  /\ NoCallInFlight
  /\ Len(state.results) = Len(AIRIA_AGENTS)
  /\ \E i \in 1..Len(state.results) : ~state.results[i].success
  /\ state.progress = 100
  /\ state.errors = << NoTextError >>

\* A step in which a hook entry point makes a call.
StartsCall ==
  \E c \in CallIds :
    calls[c].pc = "free" /\ calls'[c].pc = "launch" /\ calls'[c].via = "hook"

\* C17: idle -> running -> settled.  When every launched invocation
\* settles and ready continuations run (the fairness of SpecLive), every
\* state in which isProcessing is true, so every batch start and every
\* single-agent start, is followed by a state in which it is false; it
\* turns from false to true only in a step that starts a batch or a
\* single-agent call; and the updater of the catch blocks, which runs if
\* the coordinator raises, turns it false in whatever session it meets.
C17_RunningLeadsToSettled ==
  /\ (state.isProcessing ~> ~state.isProcessing)
  /\ [][(~state.isProcessing /\ state'.isProcessing) => StartsCall]_vars
  /\ [](~CaughtState(state, <<"Unknown error">>).isProcessing)

\* Two operations were started, the later a batch over the registry; every
\* invocation was answered successfully, the batch has completed and the
\* session is settled with no call left.
C17_Witness ==
  /\ nops = 2
  /\ NoCallInFlight
  /\ ~state.isProcessing
  /\ state.progress = 100
  /\ Len(state.results) = Len(AIRIA_AGENTS)
  /\ \A i \in 1..Len(state.results) : state.results[i].success

\* C18: when only the batch entry points start calls, no partial batch is
\* visible: results is not empty only while isProcessing is false, and
\* every step that changes results either empties it or is the completion
\* of one batch, all of whose invocations have settled, that writes the
\* batch's whole list, one outcome per requested id.
C18_NoPartialBatch ==
  /\ [](state.results # <<>> => ~state.isProcessing)
  /\ [][state'.results # state.results =>
          \/ state'.results = <<>>
          \/ \E c \in CallIds :
               /\ HookBatchDone(c)
               /\ \A i \in 1..Len(calls[c].slots) : calls[c].slots[i].st = "fulfilled"
               /\ Len(state'.results) = Len(calls[c].guids)
               /\ \A i \in 1..Len(calls[c].guids) : state'.results[i] = calls[c].slots[i].val]_vars

\* The list of a batch over the registry is in the session, one outcome
\* failed, while a batch started later still waits for an invocation.
C18_Witness ==
  /\ Len(state.results) = Len(AIRIA_AGENTS)
  /\ \E i \in 1..Len(state.results) : ~state.results[i].success
  /\ ~state.isProcessing
  /\ \E c \in HookBatchesInFlight : calls[c].pc = "await" /\ HasUnsettled(c)

\* s is a prefix of t.
IsPrefix(s, t) == Len(s) <= Len(t) /\ SubSeq(t, 1, Len(s)) = s

\* A step in which a batch entry point makes a call.
StartsBatch ==
  \E c \in CallIds :
    /\ calls[c].pc = "free" /\ calls'[c].pc = "launch"
    /\ calls'[c].via = "hook" /\ calls'[c].kind \in {"all", "specific"}

\* C19 as stated: errors is append-only and cleared by resetState alone: in
\* every step that is not a resetState the errors before are a prefix of
\* the errors after.
C19_ErrorsAppendOnlyButReset ==
  [][~resetState => IsPrefix(state.errors, state'.errors)]_vars

\* C19 amended: errors is append-only except for three operations that
\* empty it: resetState, clearErrors, and the start of a batch whose input
\* passed the blank check.  In every other step the errors before are a
\* prefix of the errors after, and at most one message is added.
C19_ErrorsAppendOnlyButCleared ==
  [][\/ /\ IsPrefix(state.errors, state'.errors)
        /\ Len(state'.errors) <= Len(state.errors) + 1
     \/ /\ resetState \/ clearErrors \/ StartsBatch
        /\ state'.errors = <<>>]_vars

\* Two different messages stand in errors in the order they were added,
\* beside the outcome of a single-agent call.
C19_Witness ==
  /\ Len(state.errors) = 2
  /\ state.errors[1] = NoTextError
  /\ state.errors[2] # NoTextError
  /\ Len(state.results) = 1

\* C20 as stated: between one batch start (or resetState) and the next,
\* results only grows at its end: in every step that is neither a batch
\* start nor a resetState the results before are a prefix of the results
\* after, however batch and single-agent completions interleave.
C20_ResultsAppendOnlyWithinBatch ==
  [][(~StartsBatch /\ ~resetState) => IsPrefix(state.results, state'.results)]_vars

\* The batch the page started on mount has settled: every agent has an
\* outcome in the session and no call is left.
PageBatchSettled ==
  /\ nops = 1
  /\ NoCallInFlight
  /\ Len(state.results) = Len(AIRIA_AGENTS)

\* C21 as stated: while the user stays on the page, once the batch started
\* on mount has settled, with every agent's outcome successful or failed,
\* the page eventually navigates to /analysis/<id>.
C21_SettledLeadsToNavigation ==
  [](page.route # "left") => (PageBatchSettled ~> (page.route = "analysis"))

\* The reason of the first check of sendToAgent that fails, in the order
\* resolution, credential, transport, status, parse; <<>> when none fails.
\* The answer of fetch is looked at only when a request was sent.
FirstFailingCheck(key, guid, slot) ==
  IF \A i \in 1..Len(AIRIA_AGENTS) : AIRIA_AGENTS[i].guid # guid
    THEN <<"Agent with GUID ", guid, " not found">>
  ELSE IF key = "" THEN ConfigurationFailure
  ELSE IF slot.resp.kind = "throws" THEN << slot.resp.body >>
  ELSE IF slot.resp.status \notin {"200", "201", "204"}
    THEN <<"Airia API error (", slot.resp.status, "): ", slot.resp.body>>
  ELSE IF slot.resp.body \notin JsonBodies THEN <<"Unexpected token in JSON">>
  ELSE <<>>

\* C22: every settled invocation of sendToAgent has success = true exactly
\* when the id resolves, the credential is present, fetch did not throw,
\* the status is 2xx and the body parses; otherwise success = false and the
\* error is the reason of the first of these checks that fails, in that
\* order.  A request is on the wire exactly when the first two checks pass.
C22_SuccessIffAllChecksPass ==
  \A c \in CallIds : \A i \in 1..Len(calls[c].slots) :
    LET slot == calls[c].slots[i]
        guid == calls[c].guids[i]
    IN  /\ slot.st \in {"pending", "fulfilled"} =>
             slot.net = (Known(guid) /\ apiKey # "")
        /\ slot.st = "fulfilled" =>
             LET reason == FirstFailingCheck(apiKey, guid, slot)
             IN  /\ slot.val.success = (reason = <<>>)
                 /\ ~slot.val.success => slot.val.error = reason

\* In one batch an invocation answered 500 with a body that is not JSON has
\* failed and another has succeeded.
C22_Witness ==
  \E c \in CallIds : \E i, j \in 1..Len(calls[c].slots) :
    /\ calls[c].slots[i].st = "fulfilled" /\ calls[c].slots[j].st = "fulfilled"
    /\ calls[c].slots[i].net /\ calls[c].slots[j].net
    /\ calls[c].slots[i].resp.status = "500" /\ ~calls[c].slots[i].val.success
    /\ calls[c].slots[j].val.success

\* C23 as stated: on a non-2xx answer the reason holds the status and only
\* a bounded prefix of the body.  The one truncation in sendToAgent keeps
\* ExcerptLimit characters (line 153), so the bound meant is that: the body
\* part of the reason is never longer than ExcerptLimit, whatever the
\* length of the body.
C23_ReasonHoldsBoundedExcerpt ==
  \A c \in CallIds : \A i \in 1..Len(calls[c].slots) :
    LET slot == calls[c].slots[i]
    IN  (slot.st = "fulfilled" /\ slot.net /\ slot.resp.status \notin {"200", "201", "204"}) =>
           /\ ~slot.val.success
           /\ slot.val.error[2] = slot.resp.status
           /\ Len(slot.val.error[4]) <= ExcerptLimit

\* The outcomes that have reached a caller or are about to: the value of
\* every settled invocation and every element of a returned list.
OutcomesProduced ==
  UNION { { calls[c].slots[i].val :
              i \in { j \in 1..Len(calls[c].slots) : calls[c].slots[j].st = "fulfilled" } }
            \cup { calls[c].ret[i] : i \in 1..Len(calls[c].ret) } : c \in CallIds }

\* C24: every outcome sendToAgent or the coordinator returns is well
\* formed: agent_name is present and not empty, data is present exactly
\* when success is true, and error is present exactly when success is false.
C24_OutcomeWellFormed ==
  \A o \in OutcomesProduced :
    /\ "success" \in DOMAIN o /\ o.success \in BOOLEAN
    /\ "agent_name" \in DOMAIN o /\ o.agent_name # ""
    /\ ("data" \in DOMAIN o) = o.success
    /\ ("error" \in DOMAIN o) = ~o.success

\* A returned list holds a successful outcome with its data and the failed
\* outcome of an unknown id, named 'Unknown', with its error.
C24_Witness ==
  \E c \in ReturnedBatches : \E i, j \in 1..Len(calls[c].ret) :
    /\ calls[c].ret[i].success /\ "data" \in DOMAIN calls[c].ret[i]
    /\ ~calls[c].ret[j].success /\ "error" \in DOMAIN calls[c].ret[j]
    /\ calls[c].ret[j].agent_name = "Unknown"

\* C25: execution_time is present on every outcome that reaches a caller:
\* on the value of every settled invocation, successful or failed before
\* or after the request, and on every element of the lists the coordinator
\* returns, none of which is the outcome it synthesizes for a rejected
\* promise.
C25_ExecutionTimeAlwaysPresent ==
  /\ \A o \in OutcomesProduced : "execution_time" \in DOMAIN o
  /\ \A c \in ReturnedBatches : \A i \in 1..Len(calls[c].ret) :
       /\ calls[c].slots[i].st = "fulfilled"
       /\ calls[c].ret[i] = calls[c].slots[i].val

\* A returned list holds a successful outcome and the outcome of an
\* invocation whose fetch threw, both with their execution_time.
C25_Witness ==
  \E c \in ReturnedBatches : \E i, j \in 1..Len(calls[c].ret) :
    /\ calls[c].ret[i].success /\ "execution_time" \in DOMAIN calls[c].ret[i]
    /\ calls[c].slots[j].net /\ calls[c].slots[j].resp.kind = "throws"
    /\ ~calls[c].ret[j].success /\ "execution_time" \in DOMAIN calls[c].ret[j]

\* C26: in a batch with the credential present, once the coordinator has
\* run its map, so in particular whenever an answer of any invocation has
\* been processed, the request of every requested known worker has been
\* sent: none waits for another's settlement.
C26_AllIssuedBeforeAnyAnswer ==
  \A c \in CallIds :
    (calls[c].kind \in {"all", "specific"} /\ apiKey # "") =>
      /\ calls[c].pc \in {"await", "returned"} =>
           \A j \in 1..Len(calls[c].slots) :
             Known(calls[c].guids[j]) => calls[c].slots[j].net
      /\ (\E i \in 1..Len(calls[c].slots) : "resp" \in DOMAIN calls[c].slots[i]) =>
           \A j \in 1..Len(calls[c].slots) :
             Known(calls[c].guids[j]) =>
               (calls[c].slots[j].net /\ calls[c].slots[j].st \in {"pending", "fulfilled"})

\* The second worker of a batch over the registry has been answered and
\* has succeeded while the request of the first is still on the wire.
C26_Witness ==
  \E c \in CallIds :
    /\ calls[c].kind = "all" /\ calls[c].pc = "await"
    /\ calls[c].slots[2].st = "fulfilled" /\ calls[c].slots[2].val.success
    /\ calls[c].slots[1].st = "pending" /\ calls[c].slots[1].net

\* C27: when the awaited client call raises inside a hook entry point, the
\* hook does not propagate it: the catch block appends exactly one message,
\* sets isProcessing to false and currentAgent to null, leaves results and
\* completedAgents (and progress) as they were, ends the call, and returns
\* [] from a batch entry point and null from processSingleAgent.
C27_RaiseIsCaught ==
  [][\A c \in CallIds, message \in RaisedMessages :
        HookCaught(c, message) =>
          /\ state'.errors = Append(state.errors, message)
          /\ state'.isProcessing = FALSE
          /\ state'.currentAgent = "null"
          /\ state'.results = state.results
          /\ state'.completedAgents = state.completedAgents
          /\ state'.progress = state.progress
          /\ calls'[c].pc = "free"
          /\ IF calls[c].kind = "single"
               THEN CaughtReturn(calls[c].kind) = "null"
               ELSE CaughtReturn(calls[c].kind) = <<>>]_vars

\* A raise was caught after a single-agent call had completed: its message
\* is the one error, the earlier outcome is still in results, and the
\* session is not processing.
C27_Witness ==
  /\ nops = 2
  /\ NoCallInFlight
  /\ Len(state.errors) = 1 /\ state.errors[1] \in RaisedMessages
  /\ Len(state.results) = 1
  /\ state.completedAgents = << state.results[1].agent_name >>
  /\ ~state.isProcessing /\ state.currentAgent = "null"

\* C28: currentAgent is null at the start and takes a name only in a step
\* in which processSingleAgent makes its call, so it is null throughout an
\* execution that uses the fan-out entry points only; and in every
\* reachable state a currentAgent other than null implies isProcessing.
C28_CurrentAgentOnlyWhileSingleRuns ==
  /\ state.currentAgent = "null"
  /\ [](state.currentAgent # "null" => state.isProcessing)
  /\ [][(state'.currentAgent # "null" /\ state'.currentAgent # state.currentAgent) =>
          \E c \in CallIds :
            /\ calls[c].pc = "free" /\ calls'[c].pc = "launch"
            /\ calls'[c].kind = "single"
            /\ state'.currentAgent = ResolvedName(calls'[c].guids[1])]_vars

\* A single-agent call is in flight and its agent is the current one,
\* after a batch over the registry had completed and left its list.
C28_Witness ==
  /\ state.currentAgent # "null"
  /\ state.isProcessing
  /\ Len(state.results) = Len(AIRIA_AGENTS)
  /\ \E c \in CallIds :
       /\ calls[c].kind = "single" /\ calls[c].pc = "await"
       /\ state.currentAgent = ResolvedName(calls[c].guids[1])

\* C29: processSingleAgent with an id the registry lacks and a payload
\* that is not blank launches nothing and returns null; it appends exactly
\* one 'not found' message naming the id to errors and leaves results,
\* completedAgents, isProcessing, currentAgent and progress as they were:
\* no outcome is recorded for the id.
C29_UnknownSingleAgentRejected ==
  [][\A arg \in TextArgs :
        (processSingleAgent(UnknownGuid, arg) /\ ~OnlyWhitespace(InputOrPdf(arg, pdfText))) =>
          /\ calls' = calls
          /\ SingleEarlyReturn = "null"
          /\ state'.errors = Append(state.errors, <<"Agent with GUID ", UnknownGuid, " not found">>)
          /\ state'.results = state.results
          /\ state'.completedAgents = state.completedAgents
          /\ state'.isProcessing = state.isProcessing
          /\ state'.currentAgent = state.currentAgent
          /\ state'.progress = state.progress]_vars

\* While a batch, the first operation, awaits its invocations, a
\* single-agent call for an unknown id was rejected: the one error names
\* the id, the session is still processing and holds no outcome.
C29_Witness ==
  /\ nops = 2
  /\ state.errors = << <<"Agent with GUID ", UnknownGuid, " not found">> >>
  /\ state.isProcessing
  /\ state.results = <<>>
  /\ \E c \in HookBatchesInFlight : calls[c].pc = "await" /\ calls[c].op = 1
  /\ \A c \in CallIds : calls[c].kind # "single"

=============================================================================
